---- MODULE Spec2Model ----
(***************************************************************************)
(* c2e (src/py360convert/c2e.py): conversion of a cubemap to an            *)
(* equirectangular image, as one call of the function.  The arguments are  *)
(* drawn in Init; every action is one step of the function body.  Arrays   *)
(* live in a heap of storage blocks and are handled through references, as *)
(* numpy arrays and their views are.  Real numbers are fixed-point         *)
(* integers with Scale units per 1.0.                                      *)
(***************************************************************************)
EXTENDS Integers, Sequences, FiniteSets, TLC

\* ---------------------------------------------------------------- bounds
MaxH == 4
MaxW8 == 1
MaxFaceW == 2
MaxChannels == 2

\* ------------------------------------------------- face enumeration (0F 1R 2B 3L 4U 5D)
FRONT == 0
RIGHT == 1
BACK == 2
LEFT == 3
UP == 4
DOWN == 5

\* ------------------------------------------------------ fixed-point reals
Scale == 10 * 100
Big == 100 * Scale
PiM == (31416 * Scale + 5000) \div 10000
HalfPi == (PiM + 1) \div 2
QuarterPi == (PiM + 2) \div 4

Abs(a) == IF a < 0 THEN -a ELSE a
Min2(a, b) == IF a < b THEN a ELSE b
Max2(a, b) == IF a > b THEN a ELSE b
Sat(a) == Max2(-Big, Min2(Big, a))

\* a / b rounded to the nearest integer, for b > 0
RDiv(a, b) == (2 * a + b) \div (2 * b)
FMul(a, b) == RDiv(a * b, Scale)
FDiv(a, b) ==
    IF b = 0 THEN (IF a >= 0 THEN Big ELSE -Big)
    ELSE IF b > 0 THEN Sat(RDiv(Sat(a) * Scale, b))
    ELSE Sat(-RDiv(Sat(a) * Scale, -b))

\* an angle brought into [-pi, pi)
NormAngle(x) == ((x + PiM) % (2 * PiM)) - PiM

\* the sine series on [-pi/2, pi/2]
SinSeries(x) ==
    LET x2 == FMul(x, x)
        t3 == -RDiv(FMul(x, x2), 6)
        t5 == -RDiv(FMul(t3, x2), 20)
        t7 == -RDiv(FMul(t5, x2), 42)
        t9 == -RDiv(FMul(t7, x2), 72)
    IN  x + t3 + t5 + t7 + t9

Sin(x) ==
    LET a == NormAngle(x)
    IN  IF a > HalfPi THEN SinSeries(PiM - a)
        ELSE IF a < -HalfPi THEN SinSeries(-PiM - a)
        ELSE SinSeries(a)

Cos(x) == Sin(x + HalfPi)

Tan(x) == FDiv(Sin(x), Cos(x))

\* ------------------------------------------------------ arrays and views
\* A storage block holds the elements of one allocated array; nw counts the
\* writes each element has received since the allocation.  A reference is a
\* view on a block: the whole array, the array with a trailing axis of
\* length 1 added (x[..., None]), a sub-rectangle of its first two axes, or
\* one channel of it (x[..., k]).
Idx(shape) ==
    CASE Len(shape) = 2 -> (0 .. shape[1] - 1) \X (0 .. shape[2] - 1)
      [] Len(shape) = 3 ->
            (0 .. shape[1] - 1) \X (0 .. shape[2] - 1) \X (0 .. shape[3] - 1)
      [] Len(shape) = 4 ->
            (0 .. shape[1] - 1) \X (0 .. shape[2] - 1) \X (0 .. shape[3] - 1)
                \X (0 .. shape[4] - 1)
      [] OTHER -> {}

MkRef(s, shape) ==
    [store |-> s, shape |-> shape, off |-> <<0, 0>>, newaxis |-> FALSE, sel |-> -1]

NoRef == MkRef(0, <<>>)

\* x[..., None] of a 2-D array
NewAxis(r) == [r EXCEPT !.shape = Append(@, 1), !.newaxis = TRUE]

\* x[r0 : r0 + nr, c0 : c0 + nc] of a 3-D array
SubRect(r, r0, c0, nr, nc) ==
    [r EXCEPT !.shape = <<nr, nc, r.shape[3]>>, !.off = <<r.off[1] + r0, r.off[2] + c0>>]

\* x[..., k] of a 3-D array
Channel(r, k) == [r EXCEPT !.shape = <<r.shape[1], r.shape[2]>>, !.sel = k]

\* the index in the block of element idx of the view
BaseIdx(r, idx) ==
    LET y == idx[1] + r.off[1]
        x == idx[2] + r.off[2]
    IN  IF r.sel >= 0 THEN <<y, x, r.sel>>
        ELSE IF r.newaxis \/ Len(idx) = 2 THEN <<y, x>>
        ELSE <<y, x, idx[3]>>

Read(hp, r, idx) == hp[r.store].data[BaseIdx(r, idx)]

ndim(r) == Len(r.shape)

\* ---------------------------------------------------------------- inputs
FaceKeys == <<"F", "R", "B", "L", "U", "D">>

Linear(shape, idx) ==
    IF Len(shape) = 2 THEN idx[1] * shape[2] + idx[2]
    ELSE (idx[1] * shape[2] + idx[2]) * shape[3] + idx[3]

\* the element at idx of the k-th input array: one constant per array, or a
\* value that names the array and the position
FillVal(fill, k, shape, idx) ==
    IF fill = "const" THEN 32 * (k - 1) ELSE 100 * k + Linear(shape, idx)

InputBlock(fill, k, shape) ==
    [shape |-> shape,
     data |-> [idx \in Idx(shape) |-> FillVal(fill, k, shape, idx)],
     nw |-> [idx \in Idx(shape) |-> 1]]

\* d = [kind, shapes, fill]: the caller's arrays are blocks 1 .. Len(d.shapes)
InputHeap(d) == [k \in 1 .. Len(d.shapes) |-> InputBlock(d.fill, k, d.shapes[k])]

InputCubemap(d) ==
    [kind |-> d.kind,
     items |-> IF d.kind = "dict"
               THEN [key \in {FaceKeys[k] : k \in 1 .. Len(d.shapes)} |->
                        LET k == CHOOSE j \in 1 .. 6 : FaceKeys[j] = key
                        IN  MkRef(k, d.shapes[k])]
               ELSE [k \in 1 .. Len(d.shapes) |-> MkRef(k, d.shapes[k])]]

Rep(n, s) == [k \in 1 .. n |-> s]

FaceShapes2 == (1 .. MaxFaceW) \X (1 .. MaxFaceW)
FaceShapes3 == (1 .. MaxFaceW) \X (1 .. MaxFaceW) \X (1 .. MaxChannels)
FaceShapes == FaceShapes2 \cup FaceShapes3
SquareShapes == {s \in FaceShapes : s[1] = s[2]}

\* s with one more row
Taller(s) == [s EXCEPT ![1] = @ + 1]

Desc(kind, shapes, fill) == [kind |-> kind, shapes |-> shapes, fill |-> fill]

ListDescs ==
    {Desc("list", Rep(6, s), "grad") : s \in FaceShapes}
    \cup {Desc("list", Rep(n, s), "grad") : n \in {5, 7}, s \in SquareShapes}
    \cup {Desc("list", Rep(6, s), "const") : s \in SquareShapes}
    \cup {Desc("list", [Rep(6, s) EXCEPT ![6] = Taller(s)], "grad") : s \in SquareShapes}
    \cup {Desc("list", <<>>, "grad")}

DictDescs ==
    {Desc("dict", Rep(6, s), "grad") : s \in FaceShapes}
    \cup {Desc("dict", [Rep(6, s) EXCEPT ![6] = Taller(s)], "grad") : s \in SquareShapes}
    \cup {Desc("dict", <<>>, "grad")}

\* a horizontal strip of six faces, a 3 x 4 cross of faces, and a strip one
\* column too wide
ArrayDescs ==
    {Desc("ndarray", <<[s EXCEPT ![2] = 6 * @]>>, "grad") : s \in FaceShapes}
    \cup {Desc("ndarray", <<[s EXCEPT ![1] = 3 * @, ![2] = 4 * @]>>, "grad") : s \in FaceShapes}
    \cup {Desc("ndarray", <<[s EXCEPT ![2] = 6 * @ + 1]>>, "grad") : s \in SquareShapes}

Descs == ListDescs \cup DictDescs \cup ArrayDescs

Modes == {"nearest", "bilinear", "lanczos"}
Formats == {"horizon", "list", "dict", "dice", "cross"}
Heights == {-1, 0, MaxH - 1, MaxH}
Widths == {-8, 0, 4, 15} \cup {8 * k : k \in 1 .. MaxW8}

\* the scenario of six 4 x 4 x 1 faces filled with 0, 32, ..., 160
ScenarioDesc == Desc("list", Rep(6, <<4, 4, 1>>), "const")
ScenarioArgs ==
    [d : {ScenarioDesc}, h : {8}, w : {16}, mode : {"nearest", "bilinear"},
     cube_format : {"list"}]

\* the formats that take a container of the given kind
FormatsOf(kind) == IF kind = "ndarray" THEN {"horizon", "dice"} ELSE {kind}

\* every container with every format and mode at one valid size; every
\* container in its own formats at every size; the scenario
Args ==
    [d : Descs, h : {MaxH}, w : {8}, mode : Modes, cube_format : Formats]
    \cup UNION {[d : {dd}, h : Heights, w : Widths, mode : Modes,
                 cube_format : FormatsOf(dd.kind)] : dd \in Descs}
    \cup ScenarioArgs

VARIABLES
    cubemap, h, w, mode, cube_format,   \* the arguments of the call
    heap,                               \* storage blocks, by number
    pc, err,                            \* position in c2e; the exception raised
    order, squeeze, cube_faces, stack, face_w, u, v, tp,
    coor_x, coor_y, face_w2, equirec, sampler, i,   \* the locals of c2e
    result                              \* the value returned

args == <<cubemap, h, w, mode, cube_format>>
locals == <<order, squeeze, cube_faces, stack, face_w, u, v, tp,
            coor_x, coor_y, face_w2, equirec, sampler, i>>
vars == <<args, heap, pc, err, locals, result>>

NoErr == [type |-> "none", at |-> "none"]
NoSampler == [tp |-> <<>>, coor_x |-> NoRef, coor_y |-> NoRef, order |-> 0, h |-> 0, w |-> 0]

Init ==
    \E a \in Args :
        /\ cubemap = InputCubemap(a.d)
        /\ heap = InputHeap(a.d)
        /\ h = a.h /\ w = a.w /\ mode = a.mode /\ cube_format = a.cube_format
        /\ pc = "start" /\ err = NoErr
        /\ order = 0 /\ squeeze = FALSE /\ cube_faces = <<>> /\ stack = NoRef
        /\ face_w = 0 /\ u = <<>> /\ v = <<>> /\ tp = <<>>
        /\ coor_x = NoRef /\ coor_y = NoRef /\ face_w2 = 0 /\ equirec = NoRef
        /\ sampler = NoSampler /\ i = 0
        /\ result = NoRef

\* raise: the call ends with exception type t, raised at the current step
Raise(t) ==
    /\ pc' = "failed"
    /\ err' = [type |-> t, at |-> pc]

\* ------------------------------------------------ line 77: mode_to_order
mode_to_order(m) ==
    IF m = "nearest" THEN [ok |-> TRUE, order |-> 0]
    ELSE IF m = "bilinear" THEN [ok |-> TRUE, order |-> 1]
    ELSE [ok |-> FALSE, order |-> 0]

ModeToOrder ==
    /\ pc = "start"
    /\ LET r == mode_to_order(mode)
       IN  IF r.ok
           THEN /\ order' = r.order
                /\ pc' = "chk_w"
                /\ UNCHANGED err
           ELSE /\ Raise("ValueError")
                /\ UNCHANGED order
    /\ UNCHANGED <<args, heap, squeeze, cube_faces, stack, face_w, u, v, tp,
                   coor_x, coor_y, face_w2, equirec, sampler, i, result>>

\* ------------------------------------------------------------ lines 78-79
WidthRejected(width) == width % 8 # 0

CheckWidth ==
    /\ pc = "chk_w"
    /\ IF WidthRejected(w)
       THEN Raise("ValueError")
       ELSE pc' = "normalize" /\ UNCHANGED err
    /\ UNCHANGED <<args, heap, locals, result>>

\* -------------------------------------------- lines 81-122: normalization
\* A normalization yields [err, faces, squeeze]: err is "" on success.
Normalized(faces, sq) == [err |-> "", faces |-> faces, squeeze |-> sq]
Rejected(t) == [err |-> t, faces |-> <<>>, squeeze |-> FALSE]

\* the number of distinct shapes among the references of a container
ShapeCount(items) == Cardinality({items[k].shape : k \in DOMAIN items})

\* the strip cut into six faces along its second axis
cube_h2list(a) ==
    IF a.shape[2] % 6 # 0 THEN Rejected("ValueError")
    ELSE LET fw == a.shape[2] \div 6
         IN  Normalized([f \in 1 .. 6 |-> SubRect(a, 0, (f - 1) * fw, a.shape[1], fw)],
                        FALSE)

\* the place <<column, row>> of each face in the 3 x 4 cross
DicePlace == <<<<1, 1>>, <<2, 1>>, <<3, 1>>, <<0, 1>>, <<1, 0>>, <<1, 2>>>>

cube_dice2list(a) ==
    IF a.shape[1] % 3 # 0 \/ a.shape[2] % 4 # 0 THEN Rejected("ValueError")
    ELSE LET fh == a.shape[1] \div 3
             fw == a.shape[2] \div 4
         IN  Normalized([f \in 1 .. 6 |->
                            SubRect(a, DicePlace[f][2] * fh, DicePlace[f][1] * fw, fh, fw)],
                        FALSE)

cube_dict2list(items) ==
    IF \E k \in 1 .. 6 : FaceKeys[k] \notin DOMAIN items THEN Rejected("KeyError")
    ELSE Normalized([k \in 1 .. 6 |-> items[FaceKeys[k]]], FALSE)

\* lines 82-89
NormalizeHorizon(cm) ==
    IF cm.kind # "ndarray" THEN Rejected("TypeError")
    ELSE LET a == cm.items[1]
             sq == ndim(a) = 2
             r == cube_h2list(IF sq THEN NewAxis(a) ELSE a)
         IN  [r EXCEPT !.squeeze = (r.err = "" /\ sq)]

\* lines 91-100
ListSqueeze(first) == ndim(first) = 2

NormalizeList(cm) ==
    IF cm.kind # "list" THEN Rejected("TypeError")
    ELSE IF ShapeCount(cm.items) # 1 THEN Rejected("ValueError")
    ELSE IF ListSqueeze(cm.items[1])
         THEN Normalized([k \in DOMAIN cm.items |-> NewAxis(cm.items[k])], TRUE)
         ELSE Normalized(cm.items, FALSE)

\* lines 102-111
NormalizeDict(cm) ==
    IF cm.kind # "dict" THEN Rejected("TypeError")
    ELSE IF ShapeCount(cm.items) # 1 THEN Rejected("ValueError")
    ELSE IF "F" \notin DOMAIN cm.items THEN Rejected("KeyError")
    ELSE LET sq == ndim(cm.items["F"]) = 2
             r == cube_dict2list(IF sq THEN [k \in DOMAIN cm.items |-> NewAxis(cm.items[k])]
                                 ELSE cm.items)
         IN  [r EXCEPT !.squeeze = (r.err = "" /\ sq)]

\* lines 113-120
NormalizeDice(cm) ==
    IF cm.kind # "ndarray" THEN Rejected("TypeError")
    ELSE LET a == cm.items[1]
             sq == ndim(a) = 2
             r == cube_dice2list(IF sq THEN NewAxis(a) ELSE a)
         IN  [r EXCEPT !.squeeze = (r.err = "" /\ sq)]

\* the branch of lines 81-122 taken for format fmt
Normalize(fmt, cm) ==
    CASE fmt = "horizon" -> NormalizeHorizon(cm)
      [] fmt = "list" -> NormalizeList(cm)
      [] fmt = "dict" -> NormalizeDict(cm)
      [] fmt = "dice" -> NormalizeDice(cm)
      [] OTHER -> Rejected("ValueError")

NormalizeStep(fmt) ==
    /\ pc = "normalize"
    /\ LET r == Normalize(fmt, cubemap)
       IN  IF r.err # ""
           THEN /\ Raise(r.err)
                /\ UNCHANGED <<cube_faces, squeeze>>
           ELSE /\ cube_faces' = r.faces
                /\ squeeze' = r.squeeze
                /\ pc' = "stack"
                /\ UNCHANGED err
    /\ UNCHANGED <<args, heap, order, stack, face_w, u, v, tp,
                   coor_x, coor_y, face_w2, equirec, sampler, i, result>>

Horizon == cube_format = "horizon" /\ NormalizeStep("horizon")
List == cube_format = "list" /\ NormalizeStep("list")
Dict == cube_format = "dict" /\ NormalizeStep("dict")
Dice == cube_format = "dice" /\ NormalizeStep("dice")

\* line 122
UnknownFormat ==
    /\ pc = "normalize"
    /\ cube_format \notin {"horizon", "list", "dict", "dice"}
    /\ Raise(Normalize(cube_format, cubemap).err)
    /\ UNCHANGED <<args, heap, locals, result>>

\* ---------------------------------------------------- line 124: np.stack
\* np.stack or np.empty writing into the caller's first array
ReusedStore(hp) == 1

\* a block number not yet in use
FreshStore(hp) == Cardinality(DOMAIN hp) + 1

\* hp with a new block b, and the reference to it
Allocated(hp, b) ==
    LET s == FreshStore(hp)
    IN  [heap |-> (s :> b) @@ hp, ref |-> MkRef(s, b.shape)]

\* the faces copied into one new array of shape (n, fh, fw, C)
StackBlock(hp, faces) ==
    LET shape == <<Len(faces)>> \o faces[1].shape
    IN  [shape |-> shape,
         data |-> [idx \in Idx(shape) |->
                      Read(hp, faces[idx[1] + 1], <<idx[2], idx[3], idx[4]>>)],
         nw |-> [idx \in Idx(shape) |-> 1]]

StackOk(faces) == Len(faces) > 0 /\ ShapeCount(faces) = 1

StackFaces ==
    /\ pc = "stack"
    /\ IF StackOk(cube_faces)
       THEN LET a == Allocated(heap, StackBlock(heap, cube_faces))
            IN  /\ heap' = a.heap
                /\ stack' = a.ref
                /\ pc' = "square"
                /\ UNCHANGED err
       ELSE /\ Raise("ValueError")
            /\ UNCHANGED <<heap, stack>>
    /\ UNCHANGED <<args, order, squeeze, cube_faces, face_w, u, v, tp,
                   coor_x, coor_y, face_w2, equirec, sampler, i, result>>

\* ------------------------------------------------------- lines 126-128
NotSquare(shape) == shape[2] # shape[3]

CheckSquare ==
    /\ pc = "square"
    /\ IF NotSquare(stack.shape)
       THEN Raise("ValueError") /\ UNCHANGED face_w
       ELSE /\ face_w' = stack.shape[3]
            /\ pc' = "uvgrid"
            /\ UNCHANGED err
    /\ UNCHANGED <<args, heap, order, squeeze, cube_faces, stack, u, v, tp,
                   coor_x, coor_y, face_w2, equirec, sampler, i, result>>

\* ------------------------------------------- line 130: equirect_uvgrid
Pixels(hh, ww) == (0 .. hh - 1) \X (0 .. ww - 1)

\* longitude and latitude of the centre of pixel p = <<y, x>>
equirect_uvgrid(hh, ww) ==
    [u |-> [p \in Pixels(hh, ww) |-> RDiv((2 * p[2] + 1) * PiM, ww) - PiM],
     v |-> [p \in Pixels(hh, ww) |-> RDiv((2 * p[1] + 1) * PiM, 2 * hh) - HalfPi]]

UvGrid ==
    /\ pc = "uvgrid"
    /\ LET g == equirect_uvgrid(h, w)
       IN  u' = g.u /\ v' = g.v
    /\ pc' = "facetype"
    /\ UNCHANGED <<args, heap, err, order, squeeze, cube_faces, stack, face_w, tp,
                   coor_x, coor_y, face_w2, equirec, sampler, i, result>>

\* ----------------------------------------- line 133: equirect_facetype
\* the quarter of the horizon the longitude lies in: 0F 1R 2B 3L
Band(uu) == ((uu + QuarterPi) \div HalfPi) % 4

\* a pixel at or above the latitude atan(cos(u_local)) belongs to a pole
\* face: |v| >= atan(c) is tan(|v|) >= c for |v| < pi/2
FaceLabel(uu, vv) ==
    LET b == Band(uu)
        u_local == uu - HalfPi * b
    IN  IF Tan(Abs(vv)) >= Cos(u_local)
        THEN (IF vv > 0 THEN UP ELSE DOWN)
        ELSE b

equirect_facetype(hh, ww) ==
    LET g == equirect_uvgrid(hh, ww)
    IN  [p \in Pixels(hh, ww) |-> FaceLabel(g.u[p], g.v[p])]

FaceType ==
    /\ pc = "facetype"
    /\ tp' = equirect_facetype(h, w)
    /\ pc' = "alloc_coor"
    /\ UNCHANGED <<args, heap, err, order, squeeze, cube_faces, stack, face_w, u, v,
                   coor_x, coor_y, face_w2, equirec, sampler, i, result>>

\* ------------------------------------------- lines 135-137: np.empty
\* what an uninitialized element may hold
Garbage == {0, 0 - 1}

NpEmptyOk(shape) == \A k \in 1 .. Len(shape) : shape[k] >= 0

EmptyBlock(shape, g) ==
    [shape |-> shape,
     data |-> [idx \in Idx(shape) |-> g],
     nw |-> [idx \in Idx(shape) |-> 0]]

HalfFace(fw) == (fw * Scale) \div 2

AllocCoor ==
    /\ pc = "alloc_coor"
    /\ IF NpEmptyOk(<<h, w>>)
       THEN \E g \in Garbage :
                LET ax == Allocated(heap, EmptyBlock(<<h, w>>, g))
                    ay == Allocated(ax.heap, EmptyBlock(<<h, w>>, g))
                IN  /\ heap' = ay.heap
                    /\ coor_x' = ax.ref
                    /\ coor_y' = ay.ref
                    /\ face_w2' = HalfFace(face_w)
                    /\ pc' = "middle"
                    /\ UNCHANGED err
       ELSE /\ Raise("ValueError")
            /\ UNCHANGED <<heap, coor_x, coor_y, face_w2>>
    /\ UNCHANGED <<args, order, squeeze, cube_faces, stack, face_w, u, v, tp,
                   equirec, sampler, i, result>>

\* ------------------------------------ lines 139-157: coordinate mapping
\* a[mask] = val: the elements of block b selected by M set to V
MaskedWrite(b, mask, val) ==
    [b EXCEPT !.data = [p \in DOMAIN @ |-> IF mask[p] THEN val[p] ELSE @[p]],
              !.nw = [p \in DOMAIN @ |-> IF mask[p] THEN @[p] + 1 ELSE @[p]]]

MiddleMask(label) == label < UP
\* tp >= Face.UP in place of tp == Face.UP
UpMaskOrBelow(label) == label >= UP
UpMask(label) == label = UP
DownMask(label) == label = DOWN

MiddleAngle(uu, label) == uu - HalfPi * label
MiddleX(fw2, uu, vv, label) == FMul(fw2, Tan(MiddleAngle(uu, label)))
MiddleY(fw2, uu, vv, label) ==
    FDiv(FMul(-fw2, Tan(vv)), Cos(MiddleAngle(uu, label)))

UpC(fw2, vv) == FMul(fw2, Tan(HalfPi - vv))
UpX(fw2, uu, vv) == FMul(UpC(fw2, vv), Sin(uu))
UpY(fw2, uu, vv) == FMul(UpC(fw2, vv), Cos(uu))

DownC(fw2, vv) == FMul(fw2, Tan(HalfPi - Abs(vv)))
DownX(fw2, uu, vv) == FMul(DownC(fw2, vv), Sin(uu))
DownY(fw2, uu, vv) == -FMul(DownC(fw2, vv), Cos(uu))

MapFrame ==
    UNCHANGED <<args, err, order, squeeze, cube_faces, stack, face_w, u, v, tp,
                coor_x, coor_y, face_w2, equirec, sampler, i, result>>

MapMiddle ==
    /\ pc = "middle"
    /\ heap' = [heap EXCEPT
          ![coor_x.store] = MaskedWrite(@, [p \in DOMAIN tp |-> MiddleMask(tp[p])],
                                [p \in DOMAIN tp |-> MiddleX(face_w2, u[p], v[p], tp[p])]),
          ![coor_y.store] = MaskedWrite(@, [p \in DOMAIN tp |-> MiddleMask(tp[p])],
                                [p \in DOMAIN tp |-> MiddleY(face_w2, u[p], v[p], tp[p])])]
    /\ pc' = "up"
    /\ MapFrame

MapUp ==
    /\ pc = "up"
    /\ heap' = [heap EXCEPT
          ![coor_x.store] = MaskedWrite(@, [p \in DOMAIN tp |-> UpMask(tp[p])],
                                [p \in DOMAIN tp |-> UpX(face_w2, u[p], v[p])]),
          ![coor_y.store] = MaskedWrite(@, [p \in DOMAIN tp |-> UpMask(tp[p])],
                                [p \in DOMAIN tp |-> UpY(face_w2, u[p], v[p])])]
    /\ pc' = "down"
    /\ MapFrame

MapDown ==
    /\ pc = "down"
    /\ heap' = [heap EXCEPT
          ![coor_x.store] = MaskedWrite(@, [p \in DOMAIN tp |-> DownMask(tp[p])],
                                [p \in DOMAIN tp |-> DownX(face_w2, u[p], v[p])]),
          ![coor_y.store] = MaskedWrite(@, [p \in DOMAIN tp |-> DownMask(tp[p])],
                                [p \in DOMAIN tp |-> DownY(face_w2, u[p], v[p])])]
    /\ pc' = "renorm"
    /\ MapFrame

\* --------------------------------------- lines 159-163: final renormalize
Recentre(c, fw2) == c + fw2
Clip(c, lo, hi) == Max2(lo, Min2(hi, c))

\* coor += face_w2, then coor.clip(0, face_w, out=coor)
Renormalized(b, fw2, fw) ==
    MaskedWrite(MaskedWrite(b, [p \in DOMAIN b.data |-> TRUE],
                            [p \in DOMAIN b.data |-> Recentre(b.data[p], fw2)]),
                [p \in DOMAIN b.data |-> TRUE],
                [p \in DOMAIN b.data |-> Clip(Recentre(b.data[p], fw2), 0, fw * Scale)])

Renormalize ==
    /\ pc = "renorm"
    /\ heap' = [heap EXCEPT
          ![coor_x.store] = Renormalized(@, face_w2, face_w),
          ![coor_y.store] = Renormalized(@, face_w2, face_w)]
    /\ pc' = "alloc_out"
    /\ MapFrame

\* ------------------------------------------------ line 165: output buffer
AllocEquirec ==
    /\ pc = "alloc_out"
    /\ LET shape == <<h, w, stack.shape[4]>>
       IN  IF NpEmptyOk(shape)
           THEN \E g \in Garbage :
                    LET a == Allocated(heap, EmptyBlock(shape, g))
                    IN  /\ heap' = a.heap
                        /\ equirec' = a.ref
                        /\ pc' = "sampler"
                        /\ UNCHANGED err
           ELSE /\ Raise("ValueError")
                /\ UNCHANGED <<heap, equirec>>
    /\ UNCHANGED <<args, order, squeeze, cube_faces, stack, face_w, u, v, tp,
                   coor_x, coor_y, face_w2, sampler, i, result>>

\* ----------------------------------------------- line 166: the sampler
\* CubeFaceSampler(tp, coor_x, coor_y, order, h, w): the grids, the order and
\* the height and width of a face
CubeFaceSampler(labels, cx, cy, ord, fh, fw) ==
    [tp |-> labels, coor_x |-> cx, coor_y |-> cy, order |-> ord, h |-> fh, w |-> fw]

\* the sampler given coor_y, coor_x in place of coor_x, coor_y
SamplerSwapped(labels, cx, cy, ord, fw) == CubeFaceSampler(labels, cy, cx, ord, fw, fw)

\* the sampler given the size of the output in place of the size of a face
SamplerOutputSize(labels, cx, cy, ord, fw) == CubeFaceSampler(labels, cx, cy, ord, h, w)

SamplerFor(labels, cx, cy, ord, fw) == CubeFaceSampler(labels, cx, cy, ord, fw, fw)

MakeSampler ==
    /\ pc = "sampler"
    /\ sampler' = SamplerFor(tp, coor_x, coor_y, order, face_w)
    /\ i' = 0
    /\ pc' = "loop"
    /\ UNCHANGED <<args, heap, err, order, squeeze, cube_faces, stack, face_w, u, v, tp,
                   coor_x, coor_y, face_w2, equirec, result>>

\* the indices along an axis of length n that the sampler reads for
\* coordinate c: the nearest one, or the two neighbours, each clamped
Nearest(c, n) == Clip(RDiv(c, Scale), 0, n - 1)
Lower(c, n) == Clip(c \div Scale, 0, n - 1)
Upper(c, n) == Clip(c \div Scale + 1, 0, n - 1)
Frac(c) == c - (c \div Scale) * Scale

SampleIdx(ord, c, n) == IF ord = 0 THEN {Nearest(c, n)} ELSE {Lower(c, n), Upper(c, n)}

\* the elements of a slice (faces x face_h x face_w) read for pixel p
SampleReads(hp, s, p) ==
    {<<s.tp[p], iy, ix>> :
        iy \in SampleIdx(s.order, hp[s.coor_y.store].data[p], s.h),
        ix \in SampleIdx(s.order, hp[s.coor_x.store].data[p], s.w)}

SampleOk(hp, s, slice) ==
    \A p \in DOMAIN s.tp : SampleReads(hp, s, p) \subseteq DOMAIN slice

SampleNearest(hp, s, slice, p) ==
    slice[<<s.tp[p], Nearest(hp[s.coor_y.store].data[p], s.h),
                     Nearest(hp[s.coor_x.store].data[p], s.w)>>]

SampleBilinear(hp, s, slice, p) ==
    LET cy == hp[s.coor_y.store].data[p]
        cx == hp[s.coor_x.store].data[p]
        f == s.tp[p]
        fy == Frac(cy)
        fx == Frac(cx)
        v00 == slice[<<f, Lower(cy, s.h), Lower(cx, s.w)>>]
        v01 == slice[<<f, Lower(cy, s.h), Upper(cx, s.w)>>]
        v10 == slice[<<f, Upper(cy, s.h), Lower(cx, s.w)>>]
        v11 == slice[<<f, Upper(cy, s.h), Upper(cx, s.w)>>]
    IN  RDiv((Scale - fy) * ((Scale - fx) * v00 + fx * v01)
                 + fy * ((Scale - fx) * v10 + fx * v11),
             Scale * Scale)

\* the sampler applied to one single-channel slice: one value per pixel
Sample(hp, s, slice) ==
    [p \in DOMAIN s.tp |->
        IF s.order = 0 THEN SampleNearest(hp, s, slice, p)
        ELSE SampleBilinear(hp, s, slice, p)]

\* ------------------------------------------- lines 167-168: the channels
\* cube_faces[..., k]
ChannelSlice(hp, st, k) ==
    [idx \in Idx(<<st.shape[1], st.shape[2], st.shape[3]>>) |->
        hp[st.store].data[<<idx[1], idx[2], idx[3], k>>]]

\* equirec[..., k] = grid
WriteChannel(b, k, grid) ==
    [b EXCEPT !.data = [idx \in DOMAIN @ |->
                           IF idx[3] = k THEN grid[<<idx[1], idx[2]>>] ELSE @[idx]],
              !.nw = [idx \in DOMAIN @ |-> IF idx[3] = k THEN @[idx] + 1 ELSE @[idx]]]

\* cube_faces[..., 0] sampled for every output channel
FirstChannelOnly(k) == 0

\* the input channel sampled for output channel k
SourceChannel(k) == k

\* the heap after the loop body has run for channel k
LoopBody(hp, k) ==
    [hp EXCEPT ![equirec.store] =
        WriteChannel(@, k, Sample(hp, sampler, ChannelSlice(hp, stack, SourceChannel(k))))]

LoopStep ==
    /\ pc = "loop"
    /\ i < stack.shape[4]
    /\ IF SampleOk(heap, sampler, ChannelSlice(heap, stack, SourceChannel(i)))
       THEN /\ heap' = LoopBody(heap, i)
            /\ i' = i + 1
            /\ UNCHANGED <<pc, err>>
       ELSE /\ Raise("IndexError")
            /\ UNCHANGED <<heap, i>>
    /\ UNCHANGED <<args, order, squeeze, cube_faces, stack, face_w, u, v, tp,
                   coor_x, coor_y, face_w2, equirec, sampler, result>>

\* ----------------------------------------------------------- line 170
\* the squeeze forgotten
ReturnedUnsqueezed(eq, sq) == eq

\* a channel axis of length 1 squeezed as well
ReturnedSqueezeSingle(eq, sq) == IF sq \/ eq.shape[3] = 1 THEN Channel(eq, 0) ELSE eq

Returned(eq, sq) == IF sq THEN Channel(eq, 0) ELSE eq

Return ==
    /\ pc = "loop"
    /\ i >= stack.shape[4]
    /\ result' = Returned(equirec, squeeze)
    /\ pc' = "done"
    /\ UNCHANGED <<args, heap, err, locals>>

Next ==
    \/ ModeToOrder
    \/ CheckWidth
    \/ Horizon
    \/ List
    \/ Dict
    \/ Dice
    \/ UnknownFormat
    \/ StackFaces
    \/ CheckSquare
    \/ UvGrid
    \/ FaceType
    \/ AllocCoor
    \/ MapMiddle
    \/ MapUp
    \/ MapDown
    \/ Renormalize
    \/ AllocEquirec
    \/ MakeSampler
    \/ LoopStep
    \/ Return

Spec == Init /\ [][Next]_vars

\* ------------------------------------------------------------ properties
Done == pc = "done"
Failed == pc = "failed"
Ended == Done \/ Failed

\* the steps of c2e before the geometry: lines 77-128
ValidationSteps == {"start", "chk_w", "normalize", "stack", "square"}

PositiveMultipleOf8(x) == x > 0 /\ x % 8 = 0

\* the caller's arrays and the blocks that hold them
InputRefs == {cubemap.items[k] : k \in DOMAIN cubemap.items}
InputStores == {r.store : r \in InputRefs}
FirstFace == IF cubemap.kind = "dict" THEN cubemap.items["F"] ELSE cubemap.items[1]

ValidMode == mode_to_order(mode).ok
ValidCubemap ==
    LET r == Normalize(cube_format, cubemap)
    IN  /\ r.err = ""
        /\ Len(r.faces) = 6
        /\ r.faces[1].shape[1] = r.faces[1].shape[2]

CoorX(p) == heap[coor_x.store].data[p]
CoorY(p) == heap[coor_y.store].data[p]
Channels == 0 .. stack.shape[4] - 1

\* the element of the returned buffer at pixel p, channel k
Out(p, k) ==
    IF ndim(result) = 2 THEN Read(heap, result, p)
    ELSE Read(heap, result, <<p[1], p[2], k>>)

\* C1: for every w that is not a positive multiple of 8 (w = 15, w = 0,
\* w = -8), with every other argument valid, the call ends in an
\* invalid-argument failure and returns no buffer.
C1_WidthPositiveMultipleOf8 ==
    (ValidMode /\ h > 0 /\ ValidCubemap /\ ~PositiveMultipleOf8(w) /\ Ended)
        => (Failed /\ err.type = "ValueError" /\ result = NoRef)

\* C2: every call that fails raises the failure before any geometry stage
\* has run and before the coordinate grids or the output buffer are
\* allocated; no call fails after it has started producing output.
C2_FailsBeforeGeometry ==
    Failed => (err.at \in ValidationSteps /\ coor_x = NoRef /\ equirec = NoRef)

\* C3: a successful call returns a buffer of shape (h, w, C) when the input
\* faces are 3-D with C channels and of shape (h, w) when they are 2-D, in
\* every cube format.
C3_OutputShape ==
    Done => result.shape = (IF ndim(FirstFace) = 3
                            THEN <<h, w, FirstFace.shape[3]>>
                            ELSE <<h, w>>)

C3_Witness ==
    /\ Done /\ h > 0 /\ w > 0
    /\ cube_format = "dice" /\ ndim(FirstFace) = 2

\* the call of the scenario: h = 8, w = 16, six faces 4 x 4 x 1 filled with
\* 0, 32, 64, 96, 128, 160
Scenario ==
    /\ h = 8 /\ w = 16 /\ cube_format = "list" /\ cubemap.kind = "list"
    /\ cubemap = InputCubemap(ScenarioDesc)
    /\ [k \in 1 .. 6 |-> heap[k]] = InputHeap(ScenarioDesc)

\* C4 as stated: in the scenario c2e returns a buffer of shape (8, 16).
C4_ScenarioShape2D == (Scenario /\ Done) => result.shape = <<8, 16>>

\* C4 as amended: in the scenario c2e returns a buffer of shape (8, 16, 1);
\* the channel axis of length 1 of the faces is kept.
C4_ScenarioShapeKeepsChannel == (Scenario /\ Done) => result.shape = <<8, 16, 1>>

C4_Witness == Scenario /\ Done

\* the source element nearest mode names for pixel p, channel k: channel k of
\* the face labelled tp[p], at row round(coor_y) and column round(coor_x),
\* both clamped to the face
NearestSource(p, k) ==
    Read(heap, cube_faces[tp[p] + 1],
         <<Max2(0, Min2(face_w - 1, RDiv(CoorY(p), Scale))),
           Max2(0, Min2(face_w - 1, RDiv(CoorX(p), Scale))), k>>)

FaceConst(f) == Read(heap, cube_faces[f + 1], <<0, 0, 0>>)
ConstFaces ==
    \A f \in DOMAIN cube_faces : \A idx \in Idx(cube_faces[f].shape) :
        Read(heap, cube_faces[f], idx) = FaceConst(f - 1)

\* the pixels whose direction is within pi/8 of the centre of the front face
CentreTol == QuarterPi \div 2
CentrePixels == {p \in DOMAIN tp : Abs(u[p]) <= CentreTol /\ Abs(v[p]) <= CentreTol}

\* C5: in nearest mode every output element equals the one source element
\* named by the label and the rounded, clamped coordinates of its pixel; when
\* every face is filled with its own constant, every output pixel equals the
\* constant of its face, and the pixels at the centre of the front face equal
\* the constant of FRONT.
C5_NearestExact ==
    (Done /\ order = 0) =>
        \A p \in DOMAIN tp : \A k \in Channels :
            /\ Out(p, k) = NearestSource(p, k)
            /\ ConstFaces =>
                  /\ Out(p, k) = FaceConst(tp[p])
                  /\ p \in CentrePixels => Out(p, k) = FaceConst(FRONT)

C5_Witness ==
    /\ Scenario /\ Done /\ order = 0
    /\ ConstFaces /\ CentrePixels # {}
    /\ \E p \in DOMAIN tp : tp[p] = DOWN /\ Out(p, 0) = 160

\* C6: whenever c2e has reached the geometry and sampling stages, the face
\* stack holds exactly 6 faces, each square with edge face_w; any other
\* input has been rejected before.
C6_SixSquareFaces ==
    (pc \notin ValidationSteps /\ (Failed => err.at \notin ValidationSteps))
        => /\ stack.shape[1] = 6
           /\ stack.shape[2] = stack.shape[3]
           /\ stack.shape[3] = face_w

C8_TotalDispatch ==
    pc = "renorm" =>
        /\ DOMAIN heap[coor_x.store].data = Pixels(h, w)
        /\ DOMAIN heap[coor_y.store].data = Pixels(h, w)
        /\ \A p \in Pixels(h, w) :
              LET l == tp[p]
                  half == (face_w * Scale) \div 2
                  a == u[p] - HalfPi * l
                  cu == FMul(half, Tan(HalfPi - v[p]))
                  cd == FMul(half, Tan(HalfPi - Abs(v[p])))
              IN  /\ Cardinality({m \in {"middle", "up", "down"} :
                                    \/ m = "middle" /\ l < UP
                                    \/ m = "up" /\ l = UP
                                    \/ m = "down" /\ l = DOWN}) = 1
                  /\ heap[coor_x.store].nw[p] = 1
                  /\ heap[coor_y.store].nw[p] = 1
                  /\ l \in {FRONT, RIGHT, BACK, LEFT} =>
                        /\ CoorX(p) = FMul(half, Tan(a))
                        /\ CoorY(p) = FDiv(FMul(-half, Tan(v[p])), Cos(a))
                  /\ l = UP =>
                        /\ CoorX(p) = FMul(cu, Sin(u[p]))
                        /\ CoorY(p) = FMul(cu, Cos(u[p]))
                  /\ l = DOWN =>
                        /\ CoorX(p) = FMul(cd, Sin(u[p]))
                        /\ CoorY(p) = -FMul(cd, Cos(u[p]))

C8_Witness ==
    /\ pc = "renorm"
    /\ \E p \in DOMAIN tp : tp[p] < UP
    /\ \E p \in DOMAIN tp : tp[p] = UP
    /\ \E p \in DOMAIN tp : tp[p] = DOWN

\* the heap after the loop body has run for the channels of seq, in order
RECURSIVE RunLoop(_, _)
RunLoop(hp, seq) ==
    IF seq = <<>> THEN hp ELSE RunLoop(LoopBody(hp, Head(seq)), Tail(seq))

\* the orders in which the channels can be processed
Orders ==
    {o \in [1 .. stack.shape[4] -> Channels] :
        \A a, b \in DOMAIN o : a # b => o[a] # o[b]}

\* C9: every element of output channel k is written exactly once, with the
\* sample of input channel k alone; a channel once written is not written
\* again; and the buffer is the same in whatever order the channels are
\* processed.
C9_ChannelIndependent ==
    /\ pc \in {"loop", "done"} =>
          \A idx \in Idx(equirec.shape) :
              heap[equirec.store].nw[idx] = (IF idx[3] < i THEN 1 ELSE 0)
    /\ Done =>
          \A idx \in Idx(equirec.shape) :
              heap[equirec.store].data[idx] =
                  Sample(heap, sampler, ChannelSlice(heap, stack, idx[3]))[<<idx[1], idx[2]>>]
    /\ (pc = "loop" /\ i = 0
            /\ \A k \in Channels : SampleOk(heap, sampler, ChannelSlice(heap, stack, k))) =>
          \A o \in Orders :
              RunLoop(heap, o)[equirec.store]
                  = RunLoop(heap, [k \in 1 .. stack.shape[4] |-> k - 1])[equirec.store]

C9_Witness ==
    /\ Done /\ h > 0 /\ w > 0 /\ stack.shape[4] >= 2
    /\ \E p \in DOMAIN tp : Out(p, 0) # Out(p, 1)

====
